---- MODULE Spec2Model ----
(***************************************************************************)
(* The EdOpt chat widget (static/widget.js): the session store, the panel  *)
(* toggle, the greeting fetch and the message send, as one state machine.  *)
(* One page load is modelled: Init is the state right after init() ran.    *)
(* The two awaits of each async function (fetch, then resp.json()) are the *)
(* points where other handlers may run; everything between two awaits is   *)
(* one atomic step of the browser's event loop.                            *)
(***************************************************************************)
EXTENDS Integers, Sequences, FiniteSets, TLC

\* ------------------------------------------------------------------ bounds
MaxTicks == 1
MaxChats == 2
\* The longest text given to renderMarkdown, in fragments.
MaxFrags == 4

\* --------------------------------------------------------------- constants
SESSION_TTL == 24 * 60 * 60 * 1000

GREET_FALLBACK == "Welcome! I'm the EdOpt Assistant. How can I help you explore education options in New Hampshire?"
CHAT_FALLBACK == "I'm sorry, I'm having trouble right now. Please try again in a moment."

\* The clock advances in half-TTL steps, so that an age of exactly SESSION_TTL occurs.
TickStep == SESSION_TTL \div 2
\* Date.now() at page load.
LoadTime == 4 * SESSION_TTL

\* ------------------------------------------------------------- JS values
Null == "null"
Undefined == "undefined"
Ids == {"s1", "s2"}
ServerAnswer == "Hello from EdOpt"

\* ------------------------------------------------------- localStorage item
\* The text stored under STORAGE_KEY, by what JSON.parse makes of it:
\*   missing  no entry (getItem returns null)
\*   garbage  text that is no JSON
\*   null     the JSON text null
\*   num      a JSON number
\*   obj      a JSON object; id = Undefined when it has no "id" key,
\*            hasTs = FALSE when it has no "ts" key
Item(kind, id, hasTs, ts) == [kind |-> kind, id |-> id, hasTs |-> hasTs, ts |-> ts]
NoItem == Item("missing", Undefined, FALSE, 0)
GarbageItem == Item("garbage", Undefined, FALSE, 0)
NullItem == Item("null", Undefined, FALSE, 0)
NumItem == Item("num", Undefined, FALSE, 0)

\* What an earlier page load may have left behind: nothing, a session that is
\* half a TTL old, or one that is a whole TTL old.
InitialItems ==
  {NoItem} \cup {Item("obj", "s1", TRUE, LoadTime - k * TickStep) : k \in 1..2}

\* Every shape of stored text: also text that is no JSON, JSON that is no
\* {id, ts} object, and objects that lack one of the two keys.
AllItems ==
  {NoItem, GarbageItem, NullItem, NumItem}
    \cup {Item("obj", i, TRUE, LoadTime - k * TickStep) : i \in Ids \cup {Undefined}, k \in 0..2}
    \cup {Item("obj", i, FALSE, 0) : i \in Ids \cup {Undefined}}

StorageModes == {"ok", "nowrite", "denied"}

\* localStorage.getItem(STORAGE_KEY): throws when storage access is denied.
getItem(item, mode) ==
  IF mode = "denied" THEN [threw |-> TRUE, val |-> NoItem]
  ELSE [threw |-> FALSE, val |-> item]

\* JSON.parse(text): null (no entry) is coerced to the text "null".
JSONparse(item) ==
  CASE item.kind = "garbage" -> [threw |-> TRUE, val |-> NullItem]
    [] item.kind = "missing" -> [threw |-> FALSE, val |-> NullItem]
    [] OTHER -> [threw |-> FALSE, val |-> item]

\* JSON.stringify({id: id, ts: t}): a key whose value is undefined is dropped.
JSONstringify(id, t) == Item("obj", id, TRUE, t)

Truthy(data) == data.kind \in {"num", "obj"}

FreshLeq(t, data) ==
  /\ data.kind = "obj"
  /\ data.hasTs
  /\ t - data.ts <= SESSION_TTL

\* Date.now() - data.ts < SESSION_TTL; a missing ts makes the difference NaN.
Fresh(t, data) ==
  /\ data.kind = "obj"
  /\ data.hasTs
  /\ t - data.ts < SESSION_TTL

\* getSession(): [threw, ret], threw = an exception leaves the function.
getSession(item, mode, t) ==
  LET read == getItem(item, mode)
      parsed == IF read.threw THEN read ELSE JSONparse(read.val)
      data == parsed.val
  IN IF parsed.threw THEN [threw |-> FALSE, ret |-> Null]
     ELSE IF Truthy(data) /\ Fresh(t, data) THEN [threw |-> FALSE, ret |-> data.id]
     ELSE [threw |-> FALSE, ret |-> Null]

\* localStorage.setItem throws: storage unavailable, or quota exceeded.
setItemThrows(mode) == mode # "ok"

\* saveSession(id): the new stored item; a throwing setItem is swallowed.
saveSession(id, item, mode, t) ==
  IF mode = "ok" THEN JSONstringify(id, t) ELSE item

saveSessionRethrows(mode) == setItemThrows(mode)

\* Whether an exception leaves saveSession: catch (e) {} lets none out.
saveSessionThrows(mode) == setItemThrows(mode) /\ FALSE

\* ------------------------------------------------------------ input text
Space == " "
Inputs == {<<>>, <<Space>>, <<Space, "h", Space>>}

RECURSIVE TrimLeft(_)
TrimLeft(s) == IF s # <<>> /\ Head(s) = Space THEN TrimLeft(Tail(s)) ELSE s

RECURSIVE TrimRight(_)
TrimRight(s) ==
  IF s # <<>> /\ s[Len(s)] = Space THEN TrimRight(SubSeq(s, 1, Len(s) - 1)) ELSE s

NoTrim(s) == s

\* String.prototype.trim
Trim(s) == TrimRight(TrimLeft(s))

\* ------------------------------------------------------------ message list
\* The children of #edopt-messages, in document order.
Msg(role, content) == [role |-> role, content |-> content]
TypingEl == Msg("typing", <<>>)

\* renderMarkdown on the values an answer takes: a falsy text gives the empty
\* string, a text gives its HTML (here: the text, wrapped).
renderMarkdown(content) == IF content = Undefined THEN <<>> ELSE <<content>>

addMessageReplace(msgs, content, role) == <<Msg(role, content)>>

\* addMessage(content, role): the list with the new element appended.
addMessage(msgs, content, role) ==
  IF role = "assistant"
  THEN Append(msgs, Msg(role, renderMarkdown(content)))
  ELSE Append(msgs, Msg(role, content))

showTyping(msgs) == Append(msgs, TypingEl)

RECURSIVE RemoveFirstTyping(_)
RemoveFirstTyping(msgs) ==
  IF msgs = <<>> THEN <<>>
  ELSE IF Head(msgs).role = "typing" THEN Tail(msgs)
  ELSE <<Head(msgs)>> \o RemoveFirstTyping(Tail(msgs))

hideTypingAll(msgs) == SelectSeq(msgs, LAMBDA m : m.role # "typing")

\* hideTyping(): getElementById finds the first indicator in document order.
hideTyping(msgs) == RemoveFirstTyping(msgs)

CountRole(msgs, role) == Cardinality({i \in 1..Len(msgs) : msgs[i].role = role})

\* ------------------------------------------------------- renderMarkdown
\* A text is a sequence of characters. The HTML that renderMarkdown builds is
\* a sequence whose elements are characters of the text and the strings the
\* substitutions insert, each kept as one element: none of them holds a
\* character that a later pattern looks for (* [ ] ( ) backtick, newline), and a
\* raw < is gone after the first step, so no pattern matches inside or across
\* them.
NL == "\n"
\* The backtick character, which a string of this module cannot hold.
TICK == "{backtick}"
AMP == "&amp;"
LT == "&lt;"
GT == "&gt;"
A_OPEN == "<a href=\""
A_MID == "\" target=\"_blank\" rel=\"noopener\">"
A_CLOSE == "</a>"
LI_OPEN == "<li>"
LI_CLOSE == "</li>"
UL_OPEN == "<ul>"
UL_CLOSE == "</ul>"
BR == "<br>"
PARA == "</p><p>"

\* The first index k in from..Len(s) with s[k] = c, or 0.
RECURSIVE IndexOf(_, _, _)
IndexOf(s, c, from) ==
  IF from > Len(s) THEN 0
  ELSE IF s[from] = c THEN from
  ELSE IndexOf(s, c, from + 1)

\* .replace(/c/g, by)
ReplaceChar(s, c, by) == [i \in 1..Len(s) |-> IF s[i] = c THEN by ELSE s[i]]

\* Lines 59-61: & first, then < and >.
EscapeHtml(s) == ReplaceChar(ReplaceChar(ReplaceChar(s, "&", AMP), "<", LT), ">", GT)

\* The lines of s: the m flag makes ^ and $ match around every newline.
RECURSIVE SplitLines(_)
SplitLines(s) ==
  LET k == IndexOf(s, NL, 1)
  IN IF k = 0 THEN <<s>>
     ELSE <<SubSeq(s, 1, k - 1)>> \o SplitLines(SubSeq(s, k + 1, Len(s)))

RECURSIVE JoinLines(_)
JoinLines(ls) ==
  IF Len(ls) = 1 THEN ls[1]
  ELSE ls[1] \o <<NL>> \o JoinLines(Tail(ls))

StartsWith(s, pre) == Len(s) >= Len(pre) /\ SubSeq(s, 1, Len(pre)) = pre

\* .replace(/^pre(.+)$/gm, open $1 close): on every line that starts with pre
\* and has at least one more character.
ReplaceLines(s, pre, open, close) ==
  LET ls == SplitLines(s)
      new == [i \in 1..Len(ls) |->
                IF StartsWith(ls[i], pre) /\ Len(ls[i]) > Len(pre)
                THEN <<open>> \o SubSeq(ls[i], Len(pre) + 1, Len(ls[i])) \o <<close>>
                ELSE ls[i]]
  IN JoinLines(new)

Stars(n) == [i \in 1..n |-> "*"]
StarsAt(s, i, n) == i + n - 1 <= Len(s) /\ SubSeq(s, i, i + n - 1) = Stars(n)

\* The least j >= from where n stars follow, with no newline in from0..j-1; or 0.
RECURSIVE LazyEnd(_, _, _)
LazyEnd(s, j, n) ==
  IF j > Len(s) \/ s[j - 1] = NL THEN 0
  ELSE IF StarsAt(s, j, n) THEN j
  ELSE LazyEnd(s, j + 1, n)

\* .replace(/\*{n}(.+?)\*{n}/g, open $1 close), scanning from index i.
RECURSIVE ReplaceEmphasis(_, _, _, _, _)
ReplaceEmphasis(s, i, n, open, close) ==
  IF i > Len(s) THEN <<>>
  ELSE LET j == IF StarsAt(s, i, n) /\ i + n <= Len(s) THEN LazyEnd(s, i + n + 1, n) ELSE 0
       IN IF j > 0
          THEN open \o SubSeq(s, i + n, j - 1) \o close
                 \o ReplaceEmphasis(s, j + n, n, open, close)
          ELSE <<s[i]>> \o ReplaceEmphasis(s, i + 1, n, open, close)

\* .replace(/\[([^\]]+)\]\(([^)]+)\)/g, '<a href="$2" target="_blank" rel="noopener">$1</a>')
RECURSIVE ReplaceLinks(_, _)
ReplaceLinks(s, i) ==
  IF i > Len(s) THEN <<>>
  ELSE LET k == IF s[i] = "[" THEN IndexOf(s, "]", i + 1) ELSE 0
           m == IF k >= i + 2 /\ k + 1 <= Len(s) /\ s[k + 1] = "("
                THEN IndexOf(s, ")", k + 2) ELSE 0
       IN IF m >= k + 3 /\ k > 0
          THEN <<A_OPEN>> \o SubSeq(s, k + 2, m - 1) \o <<A_MID>>
                 \o SubSeq(s, i + 1, k - 1) \o <<A_CLOSE>> \o ReplaceLinks(s, m + 1)
          ELSE <<s[i]>> \o ReplaceLinks(s, i + 1)

\* .replace(/T([^T]+)T/g, "<code>$1</code>"), T the backtick
RECURSIVE ReplaceCode(_, _)
ReplaceCode(s, i) ==
  IF i > Len(s) THEN <<>>
  ELSE LET k == IF s[i] = TICK THEN IndexOf(s, TICK, i + 1) ELSE 0
       IN IF k >= i + 2
          THEN <<"<code>">> \o SubSeq(s, i + 1, k - 1) \o <<"</code>">>
                 \o ReplaceCode(s, k + 1)
          ELSE <<s[i]>> \o ReplaceCode(s, i + 1)

\* .replace(/\n\n/g, "</p><p>")
RECURSIVE ReplaceParagraphs(_, _)
ReplaceParagraphs(s, i) ==
  IF i > Len(s) THEN <<>>
  ELSE IF i < Len(s) /\ s[i] = NL /\ s[i + 1] = NL
       THEN <<PARA>> \o ReplaceParagraphs(s, i + 2)
       ELSE <<s[i]>> \o ReplaceParagraphs(s, i + 1)

\* Lines 57-83: the chain of substitutions.
Substitute(text) ==
  LET escaped == EscapeHtml(text)
      h3 == ReplaceLines(escaped, <<"#", "#", "#", " ">>, "<h3>", "</h3>")
      h2 == ReplaceLines(h3, <<"#", "#", " ">>, "<h2>", "</h2>")
      h1 == ReplaceLines(h2, <<"#", " ">>, "<h1>", "</h1>")
      bi == ReplaceEmphasis(h1, 1, 3, <<"<strong>", "<em>">>, <<"</em>", "</strong>">>)
      b == ReplaceEmphasis(bi, 1, 2, <<"<strong>">>, <<"</strong>">>)
      it == ReplaceEmphasis(b, 1, 1, <<"<em>">>, <<"</em>">>)
      links == ReplaceLinks(it, 1)
      code == ReplaceCode(links, 1)
      items == ReplaceLines(code, <<"-", " ">>, LI_OPEN, LI_CLOSE)
      paras == ReplaceParagraphs(items, 1)
  IN ReplaceChar(paras, NL, BR)

\* Lines 93-96: .replace(/(?:<br>)?(<li>[\s\S]*?<\/li>)(?:<br>)?/g, "$1")
RECURSIVE StripBreaks(_, _)
StripBreaks(s, i) ==
  IF i > Len(s) THEN <<>>
  ELSE LET p == IF s[i] = BR /\ i < Len(s) /\ s[i + 1] = LI_OPEN THEN i + 1
                ELSE IF s[i] = LI_OPEN THEN i
                ELSE 0
           q == IF p > 0 THEN IndexOf(s, LI_CLOSE, p + 1) ELSE 0
           after == IF q > 0 /\ q < Len(s) /\ s[q + 1] = BR THEN q + 2 ELSE q + 1
       IN IF q > 0
          THEN SubSeq(s, p, q) \o StripBreaks(s, after)
          ELSE <<s[i]>> \o StripBreaks(s, i + 1)

IsLi(x) == x \in {LI_OPEN, LI_CLOSE}

\* html.split(/(<li>|<\/li>)/): the pieces, the separators among them; a
\* piece is a sequence, a separator the one-element sequence of its tag.
RECURSIVE SplitLi(_, _, _)
SplitLi(s, i, piece) ==
  IF i > Len(s) THEN <<piece>>
  ELSE IF IsLi(s[i]) THEN <<piece, <<s[i]>>>> \o SplitLi(s, i + 1, <<>>)
  ELSE SplitLi(s, i + 1, Append(piece, s[i]))

\* lines[j].replace(/<br>/g, "").trim()
Trimmed(piece) == Trim(SelectSeq(piece, LAMBDA x : x # BR))

NextLiNever(lines, j) == FALSE

\* Lines 110-118: whether the next piece that is not empty is <li>.
RECURSIVE NextLi(_, _)
NextLi(lines, j) ==
  IF j > Len(lines) THEN FALSE
  ELSE IF Trimmed(lines[j]) = <<LI_OPEN>> THEN TRUE
  ELSE IF Trimmed(lines[j]) # <<>> THEN FALSE
  ELSE NextLi(lines, j + 1)

\* Lines 97-127: the loop over the pieces, from piece i on.
RECURSIVE GroupItems(_, _, _)
GroupItems(lines, i, inList) ==
  IF i > Len(lines) THEN (IF inList THEN <<UL_CLOSE>> ELSE <<>>)
  ELSE IF lines[i] = <<LI_OPEN>>
       THEN (IF inList THEN <<>> ELSE <<UL_OPEN>>) \o <<LI_OPEN>>
              \o GroupItems(lines, i + 1, TRUE)
  ELSE IF lines[i] = <<LI_CLOSE>>
       THEN IF ~NextLi(lines, i + 1) /\ inList
            THEN <<LI_CLOSE, UL_CLOSE>> \o GroupItems(lines, i + 1, FALSE)
            ELSE <<LI_CLOSE>> \o GroupItems(lines, i + 1, inList)
  ELSE lines[i] \o GroupItems(lines, i + 1, inList)

\* renderMarkdown(text) on a text given by its characters.
renderMarkdownChars(text) ==
  IF text = <<>> THEN <<>>
  ELSE <<"<p>">>
         \o GroupItems(SplitLi(StripBreaks(Substitute(text), 1), 1, <<>>), 1, FALSE)
         \o <<"</p>">>

\* ------------------------------------------------------- server responses
\* A response body, by what resp.json() makes of it:
\*   error  no JSON (resp.json() rejects)
\*   null   the JSON text null (reading data.session_id throws a TypeError)
\*   obj    an object; the API's answer {session_id, answer}, or an error
\*          body such as {"detail": ...} that has neither key
Body(parse, sid, answer) == [parse |-> parse, session_id |-> sid, answer |-> answer]
Bodies ==
  {Body("error", Undefined, Undefined), Body("null", Undefined, Undefined),
   Body("obj", Undefined, Undefined)}
    \cup {Body("obj", i, ServerAnswer) : i \in Ids}

\* ------------------------------------------------------------------ state
VARIABLES
  sessionId,    \* let sessionId
  isOpen,       \* let isOpen
  isLoading,    \* let isLoading
  hasGreeted,   \* let hasGreeted
  sendDisabled, \* sendBtn.disabled
  input,        \* input.value
  messages,     \* children of #edopt-messages
  storage,      \* the localStorage item under STORAGE_KEY
  storageMode,  \* whether localStorage can be read and written
  now,          \* Date.now()
  greetReqs,    \* /greet requests in flight
  chatReqs,     \* /chat requests in flight
  greetIssued,  \* number of /greet requests issued
  chatIssued,   \* number of /chat requests issued
  lastGet,      \* SpecSession: the last getSession() call, its inputs and its outcome
  lastRender,   \* SpecMarkdown: the last renderMarkdown() call, its text and its result
  ev            \* the last handler that ran, and the branch it took

vars == <<sessionId, isOpen, isLoading, hasGreeted, sendDisabled, input, messages,
          storage, storageMode, now, greetReqs, chatReqs, greetIssued, chatIssued,
          lastGet, lastRender, ev>>

Event(op, res, sid) == [op |-> op, res |-> res, sid |-> sid]
\* What a response step was given: the fetch rejected ("neterr"), the status
\* of the response it resolved with, or the kind of body resp.json() read.
HttpRes(ok) == IF ok THEN "http-ok" ELSE "http-error"
BodyRes(data) ==
  CASE data.parse = "error" -> "body-error"
    [] data.parse = "null" -> "body-null"
    [] OTHER -> "body-obj"
GetCall(item, t, out) == [called |-> TRUE, item |-> item, at |-> t, out |-> out]
RenderCall(text, html) == [called |-> TRUE, text |-> text, html |-> html]
PendingRender(text) == [called |-> FALSE, text |-> text, html |-> <<>>]
NoRender == PendingRender(<<>>)
NoCall == [called |-> FALSE, item |-> NoItem, at |-> 0, out |-> [threw |-> FALSE, ret |-> Null]]

\* !sessionId
Falsy(v) == v \in {Null, Undefined}

\* init(), lines 314-318, on what an earlier page load left in storage.
Init ==
  /\ storageMode \in StorageModes
  /\ storage \in InitialItems
  /\ storageMode = "denied" => storage = NoItem
  /\ storageMode = "nowrite" => storage = Item("obj", "s1", TRUE, LoadTime - TickStep)
  /\ now = LoadTime
  /\ sessionId = getSession(storage, storageMode, now).ret
  /\ lastGet = NoCall
  /\ lastRender = NoRender
  /\ isOpen = FALSE
  /\ isLoading = FALSE
  /\ hasGreeted = FALSE
  /\ sendDisabled = FALSE
  /\ input = <<>>
  /\ messages = <<>>
  /\ greetReqs = {}
  /\ chatReqs = {}
  /\ greetIssued = 0
  /\ chatIssued = 0
  /\ ev = Event("init", "done", Undefined)

\* --------------------------------------------------------- user actions
\* The user edits the textarea.
SetInput ==
  /\ \E v \in Inputs : v # input /\ input' = v
  /\ ev' = Event("idle", "done", Undefined)
  /\ UNCHANGED <<sessionId, isOpen, isLoading, hasGreeted, sendDisabled, messages,
                 storage, storageMode, now, greetReqs, chatReqs, greetIssued,
                 chatIssued, lastGet, lastRender>>

\* Date.now() moves on.
Tick ==
  /\ now < LoadTime + MaxTicks * TickStep
  /\ now' = now + TickStep
  /\ ev' = Event("idle", "done", Undefined)
  /\ UNCHANGED <<sessionId, isOpen, isLoading, hasGreeted, sendDisabled, input,
                 messages, storage, storageMode, greetReqs, chatReqs, greetIssued,
                 chatIssued, lastGet, lastRender>>

GreetReq(n, stage, ok) == [n |-> n, stage |-> stage, ok |-> ok]
ChatReq(n, stage, message, sid) ==
  [n |-> n, stage |-> stage, message |-> message, session_id |-> sid]

ShouldGreetAlways(greeted) == TRUE

\* if (!hasGreeted) fetchGreeting();
ShouldGreet(greeted) == ~greeted

\* togglePanel(), with fetchGreeting() up to its first await.
TogglePanel ==
  /\ isOpen' = ~isOpen
  /\ IF isOpen' /\ ShouldGreet(hasGreeted)
     THEN /\ hasGreeted' = TRUE
          /\ messages' = showTyping(messages)
          /\ greetIssued' = greetIssued + 1
          /\ greetReqs' = greetReqs \cup {GreetReq(greetIssued + 1, "fetch", TRUE)}
          /\ ev' = Event("togglePanel", "greet", Undefined)
     ELSE /\ ev' = Event("togglePanel", IF isOpen' THEN "open" ELSE "close", Undefined)
          /\ UNCHANGED <<hasGreeted, messages, greetIssued, greetReqs>>
  /\ UNCHANGED <<sessionId, isLoading, sendDisabled, input, storage, storageMode, now,
                 chatReqs, chatIssued, lastGet, lastRender>>

SendGuardNoLoading(message, loading) == message # <<>>

SendGuardSerialized(message, loading) == ~(message = <<>> \/ loading \/ greetReqs # {})

\* if (!message || isLoading) return;  -- TRUE when the call goes on
SendGuard(message, loading) == ~(message = <<>> \/ loading)

\* sendMessage() up to its first await.
SendMessage ==
  LET message == Trim(input) IN
  IF ~SendGuard(message, isLoading)
  THEN /\ ev' = Event("sendMessage", "dropped", Undefined)
       /\ UNCHANGED <<sessionId, isOpen, isLoading, hasGreeted, sendDisabled, input,
                      messages, storage, storageMode, now, greetReqs, chatReqs,
                      greetIssued, chatIssued, lastGet, lastRender>>
  ELSE /\ chatIssued < MaxChats
       /\ LET got == getSession(storage, storageMode, now)
              sid == IF Falsy(sessionId) THEN got.ret ELSE sessionId
          IN /\ sessionId' = sid
             /\ UNCHANGED <<lastGet, lastRender>>
             /\ chatReqs' = chatReqs \cup {ChatReq(chatIssued + 1, "fetch", message, sid)}
             /\ ev' = Event("sendMessage", "accepted", sid)
       /\ messages' = showTyping(addMessage(messages, message, "user"))
       /\ input' = <<>>
       /\ isLoading' = TRUE
       /\ sendDisabled' = TRUE
       /\ chatIssued' = chatIssued + 1
       /\ UNCHANGED <<isOpen, hasGreeted, storage, storageMode, now, greetReqs,
                      greetIssued>>

\* ------------------------------------------------------------- /greet
GreetCatchSilent(msgs) == hideTyping(msgs)

\* catch (e) of fetchGreeting
GreetCatch(msgs) == addMessage(hideTyping(msgs), GREET_FALLBACK, "assistant")

\* fetch(API_BASE + "/greet") settles: it rejects (network error), or it
\* resolves with a response of any status and fetchGreeting awaits resp.json().
GreetFetchSettles ==
  \E r \in greetReqs :
    /\ r.stage = "fetch"
    /\ \/ /\ messages' = GreetCatch(messages)
          /\ greetReqs' = greetReqs \ {r}
          /\ ev' = Event("greetResponse", "neterr", Undefined)
       \/ \E ok \in BOOLEAN :
            /\ greetReqs' = (greetReqs \ {r}) \cup {GreetReq(r.n, "json", ok)}
            /\ ev' = Event("greetResponse", HttpRes(ok), Undefined)
            /\ UNCHANGED messages
    /\ UNCHANGED <<sessionId, isOpen, isLoading, hasGreeted, sendDisabled, input,
                   storage, storageMode, now, chatReqs, greetIssued, chatIssued, lastGet,
                   lastRender>>

\* resp.json() settles and fetchGreeting runs to its end.
GreetJsonSettles ==
  \E r \in greetReqs, data \in Bodies :
    /\ r.stage = "json"
    /\ greetReqs' = greetReqs \ {r}
    /\ IF data.parse = "obj"
       THEN /\ sessionId' = data.session_id
            /\ storage' = saveSession(data.session_id, storage, storageMode, now)
            /\ messages' = IF saveSessionThrows(storageMode)
                            THEN GreetCatch(messages)
                            ELSE addMessage(hideTyping(messages), data.answer, "assistant")
            /\ ev' = Event("greetResponse", BodyRes(data), data.session_id)
       ELSE /\ messages' = GreetCatch(messages)
            /\ ev' = Event("greetResponse", BodyRes(data), data.session_id)
            /\ UNCHANGED <<sessionId, storage>>
    /\ UNCHANGED <<isOpen, isLoading, hasGreeted, sendDisabled, input, storageMode, now,
                   chatReqs, greetIssued, chatIssued, lastGet, lastRender>>

\* -------------------------------------------------------------- /chat
ChatCatchSilent(msgs) == hideTyping(msgs)

\* catch (e) of sendMessage
ChatCatch(msgs) == addMessage(hideTyping(msgs), CHAT_FALLBACK, "assistant")

RespIsErrorNever(ok) == FALSE

\* if (!resp.ok) throw
RespIsError(ok) == ~ok

LoadingAfterChatKept == TRUE

\* finally { isLoading = false; sendBtn.disabled = false; }
LoadingAfterChat == FALSE

\* fetch(API_BASE + "/chat", ...) settles: it rejects, or it resolves with a
\* non-2xx response (sendMessage throws), or with a 2xx response and
\* sendMessage awaits resp.json().
ChatFetchSettles ==
  \E r \in chatReqs :
    /\ r.stage = "fetch"
    /\ \/ /\ messages' = ChatCatch(messages)
          /\ chatReqs' = chatReqs \ {r}
          /\ isLoading' = LoadingAfterChat
          /\ sendDisabled' = LoadingAfterChat
          /\ ev' = Event("chatResponse", "neterr", Undefined)
       \/ \E ok \in BOOLEAN :
            IF RespIsError(ok)
            THEN /\ messages' = ChatCatch(messages)
                 /\ chatReqs' = chatReqs \ {r}
                 /\ isLoading' = LoadingAfterChat
                 /\ sendDisabled' = LoadingAfterChat
                 /\ ev' = Event("chatResponse", HttpRes(ok), Undefined)
            ELSE /\ chatReqs' = (chatReqs \ {r})
                                  \cup {ChatReq(r.n, "json", r.message, r.session_id)}
                 /\ ev' = Event("chatResponse", HttpRes(ok), Undefined)
                 /\ UNCHANGED <<messages, isLoading, sendDisabled>>
    /\ UNCHANGED <<sessionId, isOpen, hasGreeted, input, storage, storageMode, now,
                   greetReqs, greetIssued, chatIssued, lastGet, lastRender>>

\* resp.json() settles and sendMessage runs to its end.
ChatJsonSettles ==
  \E r \in chatReqs, data \in Bodies :
    /\ r.stage = "json"
    /\ chatReqs' = chatReqs \ {r}
    /\ IF data.parse = "obj"
       THEN /\ sessionId' = data.session_id
            /\ storage' = saveSession(data.session_id, storage, storageMode, now)
            /\ messages' = IF saveSessionThrows(storageMode)
                            THEN ChatCatch(messages)
                            ELSE addMessage(hideTyping(messages), data.answer, "assistant")
            /\ ev' = Event("chatResponse", BodyRes(data), data.session_id)
       ELSE /\ messages' = ChatCatch(messages)
            /\ ev' = Event("chatResponse", BodyRes(data), data.session_id)
            /\ UNCHANGED <<sessionId, storage>>
    /\ isLoading' = LoadingAfterChat
    /\ sendDisabled' = LoadingAfterChat
    /\ UNCHANGED <<isOpen, hasGreeted, input, storageMode, now, greetReqs, greetIssued,
                   chatIssued, lastGet, lastRender>>

Next ==
  \/ SetInput
  \/ Tick
  \/ TogglePanel
  \/ SendMessage
  \/ GreetFetchSettles
  \/ GreetJsonSettles
  \/ ChatFetchSettles
  \/ ChatJsonSettles

Spec == Init /\ [][Next]_vars

\* ------------------------------------------------------ the session store
\* getSession and saveSession on their own, over every shape of stored text.
SessionInit ==
  /\ storageMode \in StorageModes
  /\ storage \in AllItems
  /\ storageMode = "denied" => storage = NoItem
  /\ now = LoadTime
  /\ lastGet = NoCall
  /\ lastRender = NoRender
  /\ sessionId = Null
  /\ isOpen = FALSE
  /\ isLoading = FALSE
  /\ hasGreeted = FALSE
  /\ sendDisabled = FALSE
  /\ input = <<>>
  /\ messages = <<>>
  /\ greetReqs = {}
  /\ chatReqs = {}
  /\ greetIssued = 0
  /\ chatIssued = 0
  /\ ev = Event("init", "done", Undefined)

CallGetSession ==
  /\ lastGet' = GetCall(storage, now, getSession(storage, storageMode, now))
  /\ ev' = Event("getSession", "done", Undefined)
  /\ UNCHANGED <<sessionId, isOpen, isLoading, hasGreeted, sendDisabled, input,
                 messages, storage, storageMode, now, greetReqs, chatReqs, greetIssued,
                 chatIssued, lastRender>>

CallSaveSession ==
  /\ \E id \in Ids \cup {Undefined} :
       /\ storage' = saveSession(id, storage, storageMode, now)
       /\ ev' = Event("saveSession", "done", id)
  /\ UNCHANGED <<sessionId, isOpen, isLoading, hasGreeted, sendDisabled, input,
                 messages, storageMode, now, greetReqs, chatReqs, greetIssued,
                 chatIssued, lastGet, lastRender>>

SessionNext ==
  \/ Tick
  \/ CallGetSession
  \/ CallSaveSession

SpecSession == SessionInit /\ [][SessionNext]_vars

\* ------------------------------------------- renderMarkdown on its own
\* The texts renderMarkdown is given: pieces of Markdown and of HTML, put
\* together in every order.
Fragments ==
  {<<"-", " ", "a">>, <<NL>>, <<" ">>, <<"[", "a", "]", "(">>,
   <<"\"", " ", "x", "=", "\"">>, <<")">>, <<"*">>, <<"<", "&", ">">>, <<TICK>>}

RECURSIVE Concat(_)
Concat(fs) == IF fs = <<>> THEN <<>> ELSE Head(fs) \o Concat(Tail(fs))

MdTexts == {Concat(fs) : fs \in UNION {[1..k -> Fragments] : k \in 0..MaxFrags}}

MdInit ==
  /\ lastRender \in {PendingRender(text) : text \in MdTexts}
  /\ storageMode = "ok"
  /\ storage = NoItem
  /\ now = LoadTime
  /\ lastGet = NoCall
  /\ sessionId = Null
  /\ isOpen = FALSE
  /\ isLoading = FALSE
  /\ hasGreeted = FALSE
  /\ sendDisabled = FALSE
  /\ input = <<>>
  /\ messages = <<>>
  /\ greetReqs = {}
  /\ chatReqs = {}
  /\ greetIssued = 0
  /\ chatIssued = 0
  /\ ev = Event("init", "done", Undefined)

\* addMessage(content, "assistant"), line 216: renderMarkdown(content)
Render ==
  /\ ~lastRender.called
  /\ lastRender' = RenderCall(lastRender.text, renderMarkdownChars(lastRender.text))
  /\ ev' = Event("renderMarkdown", "done", Undefined)
  /\ UNCHANGED <<sessionId, isOpen, isLoading, hasGreeted, sendDisabled, input,
                 messages, storage, storageMode, now, greetReqs, chatReqs, greetIssued,
                 chatIssued, lastGet>>

MdNext == Render

SpecMarkdown == MdInit /\ [][MdNext]_vars

\* ------------------------------------------------------------ properties
\* Everything but the record of the last handler.
widget == <<sessionId, isOpen, isLoading, hasGreeted, sendDisabled, input, messages,
            storage, storageMode, now, greetReqs, chatReqs, greetIssued, chatIssued,
            lastGet, lastRender>>

Last(msgs) == msgs[Len(msgs)]
AllSpaces(s) == \A i \in 1..Len(s) : s[i] = Space
ChatFallbackMsg == Msg("assistant", <<CHAT_FALLBACK>>)
GreetFallbackMsg == Msg("assistant", <<GREET_FALLBACK>>)

\* C1: at most one /chat request is in flight in every reachable state, and a
\* sendMessage call made while isLoading is true changes nothing: no request
\* is issued, no message is rendered, the input text and the rest of the
\* widget's state stay as they were.
C1_SendWhileLoadingDropped ==
  /\ [](Cardinality(chatReqs) <= 1)
  /\ [][(isLoading /\ ev'.op = "sendMessage") => UNCHANGED widget]_vars

\* A non-empty submission was made while a /chat request was in flight, and dropped.
C1_Witness ==
  /\ ev = Event("sendMessage", "dropped", Undefined)
  /\ isLoading
  /\ ~AllSpaces(input)
  /\ Cardinality(chatReqs) = 1
  /\ chatIssued = 1

\* C2: in every reachable state at most one /greet request has been issued,
\* whatever the sequence of togglePanel calls: hasGreeted is true from the
\* moment the request is issued (so also while it is in flight) and is never
\* reset.
C2_AtMostOneGreet ==
  /\ greetIssued <= 1
  /\ hasGreeted <=> greetIssued = 1
  /\ greetReqs # {} => hasGreeted

\* The panel was reopened while the greeting was still in flight.
C2_Witness ==
  /\ ev = Event("togglePanel", "open", Undefined)
  /\ greetReqs # {}
  /\ greetIssued = 1

\* C3: a sendMessage call on an input that is empty or whitespace-only changes
\* nothing, in every state: no /chat request, no message, and isLoading,
\* sessionId, the send button and the message list stay as they were.
C3_EmptySendIsNoOp ==
  [][(ev'.op = "sendMessage" /\ AllSpaces(input)) => UNCHANGED widget]_vars

\* A whitespace-only input was submitted while nothing was loading, and dropped.
C3_Witness ==
  /\ ev = Event("sendMessage", "dropped", Undefined)
  /\ input = <<Space>>
  /\ ~isLoading
  /\ chatIssued = 0

\* The step handles the failure of a /chat request: the fetch rejected, the
\* response has a non-2xx status, or its body is no JSON.
ChatFailureStep ==
  /\ ev'.op = "chatResponse"
  /\ ev'.res \in {"neterr", "http-error", "body-error"}

\* C4: every step that handles a failed /chat request appends exactly one
\* message, the fixed fallback, removes one typing indicator, issues no new
\* request (no retry), and leaves isLoading false and the send button enabled,
\* so that the guard of sendMessage lets a non-empty submission through.
C4_ChatFailureFallback ==
  [][ChatFailureStep =>
       /\ Len(messages') = Len(messages)
       /\ Last(messages') = ChatFallbackMsg
       /\ CountRole(messages', "assistant") = CountRole(messages, "assistant") + 1
       /\ CountRole(messages', "typing") = CountRole(messages, "typing") - 1
       /\ CountRole(messages', "user") = CountRole(messages, "user")
       /\ chatIssued' = chatIssued
       /\ chatReqs' = {}
       /\ ~isLoading'
       /\ ~sendDisabled'
       /\ SendGuard(<<"h">>, isLoading')]_vars

\* After a failed /chat request, a second submission was accepted.
C4_Witness ==
  /\ ev.op = "sendMessage"
  /\ ev.res = "accepted"
  /\ chatIssued = 2
  /\ \E i \in 1..Len(messages) : messages[i] = ChatFallbackMsg

BodyKinds == {"body-error", "body-null", "body-obj"}

\* The step handles the body of a /greet response whose status is not 2xx.
GreetNonOkBodyStep ==
  /\ ev'.op = "greetResponse"
  /\ ev'.res \in BodyKinds
  /\ \E r \in greetReqs \ greetReqs' : r.stage = "json" /\ ~r.ok

\* C5: a non-2xx response is a failure at both call sites: the step that
\* handles a non-2xx /greet response, like the step that handles a non-2xx
\* /chat response, appends that call site's fallback message and leaves
\* sessionId and the stored session as they were.
C5_NonOkIsFailure ==
  [][/\ GreetNonOkBodyStep =>
          /\ Last(messages') = GreetFallbackMsg
          /\ sessionId' = sessionId
          /\ storage' = storage
     /\ (ev'.op = "chatResponse" /\ ev'.res = "http-error") =>
          /\ Last(messages') = ChatFallbackMsg
          /\ sessionId' = sessionId
          /\ storage' = storage]_vars

\* The step ends a /greet request: its fetch rejected, or its body was read.
GreetCompletionStep ==
  /\ ev'.op = "greetResponse"
  /\ ev'.res \in {"neterr"} \cup BodyKinds

\* C6: every step that ends a /greet request appends exactly one assistant
\* message and removes one typing indicator: the fallback welcome when the
\* fetch rejected or the body is no JSON, the server's greeting when the body
\* is the API's answer; isLoading, the send button, hasGreeted and the /chat
\* requests in flight stay as they were, and the request is not reissued.
C6_GreetAppendsOne ==
  [][GreetCompletionStep =>
       /\ Len(messages') = Len(messages)
       /\ Last(messages').role = "assistant"
       /\ CountRole(messages', "assistant") = CountRole(messages, "assistant") + 1
       /\ CountRole(messages', "typing") = CountRole(messages, "typing") - 1
       /\ CountRole(messages', "user") = CountRole(messages, "user")
       /\ ev'.res \in {"neterr", "body-error"} => Last(messages') = GreetFallbackMsg
       /\ (ev'.res = "body-obj" /\ ev'.sid \in Ids) =>
            Last(messages') = Msg("assistant", <<ServerAnswer>>)
       /\ greetReqs' = {}
       /\ UNCHANGED <<isLoading, sendDisabled, hasGreeted, chatReqs, greetIssued>>]_vars

\* The greeting failed on a body that is no JSON, and the fallback is shown.
C6_Witness ==
  /\ ev = Event("greetResponse", "body-error", Undefined)
  /\ Last(messages) = GreetFallbackMsg
  /\ CountRole(messages, "typing") = 0
  /\ greetReqs = {}

\* The stored text is a payload {id, ts}.
IsPayload(item) == item.kind = "obj" /\ item.hasTs /\ item.id \in Ids

\* C7 as stated: getSession never throws, returns the stored id for a
\* payload {id, ts} with now - ts < TTL, and returns null for every other
\* stored text.
C7_GetSessionNull ==
  lastGet.called =>
    /\ ~lastGet.out.threw
    /\ IF IsPayload(lastGet.item) /\ lastGet.at - lastGet.item.ts < SESSION_TTL
       THEN lastGet.out.ret = lastGet.item.id
       ELSE lastGet.out.ret = Null

\* C7, amended: getSession never throws, returns the stored id for a payload
\* {id, ts} with now - ts < TTL, and returns an absent value for every other
\* stored text: undefined for an object with a fresh ts and no id, null for
\* the rest (an expired payload, no entry, text that is no JSON, JSON that is
\* no object, an object without ts).
C7_GetSessionAbsent ==
  lastGet.called =>
    /\ ~lastGet.out.threw
    /\ IF IsPayload(lastGet.item) /\ lastGet.at - lastGet.item.ts < SESSION_TTL
       THEN lastGet.out.ret = lastGet.item.id
       ELSE IF /\ lastGet.item.kind = "obj"
               /\ lastGet.item.hasTs
               /\ lastGet.at - lastGet.item.ts < SESSION_TTL
            THEN lastGet.out.ret = Undefined
            ELSE lastGet.out.ret = Null

\* getSession was called on a payload that is exactly one TTL old, and gave null.
C7_Witness ==
  /\ lastGet.called
  /\ IsPayload(lastGet.item)
  /\ lastGet.at - lastGet.item.ts = SESSION_TTL
  /\ lastGet.out.ret = Null

\* C8: where the storage is writable (so that a held id has a stored
\* timestamp), the session_id a /chat request carries is absent or the id of
\* the stored session, whose timestamp satisfies now - ts < 24h when the
\* request is issued.
C8_SentSessionIsFresh ==
  (ev.op = "sendMessage" /\ ev.res = "accepted" /\ storageMode = "ok") =>
    \/ Falsy(ev.sid)
    \/ /\ storage.kind = "obj"
       /\ storage.hasTs
       /\ storage.id = ev.sid
       /\ now - storage.ts < SESSION_TTL

ResponseBodyEv(e) == e.op \in {"greetResponse", "chatResponse"} /\ e.res \in BodyKinds

\* C9: after a response whose body carries a session_id, sessionId and (where
\* the storage is writable) the stored session hold that id; a response whose
\* body carries no id leaves a held sessionId as it was.
C9_ResponseIdOverwrites ==
  /\ []((ResponseBodyEv(ev) /\ ev.sid \in Ids) =>
          /\ sessionId = ev.sid
          /\ storageMode = "ok" => (storage.kind = "obj" /\ storage.id = ev.sid))
  /\ [][(ResponseBodyEv(ev') /\ ev'.sid \notin Ids /\ sessionId \in Ids) =>
          sessionId' = sessionId]_vars

\* C10: isLoading is true exactly while a /chat request is in flight, and the
\* send button is disabled exactly while isLoading is true; so a request that
\* never completes keeps the widget loading.
C10_LoadingIffChatInFlight ==
  /\ isLoading <=> chatReqs # {}
  /\ sendDisabled <=> isLoading

\* A /chat request has completed and the widget is ready for the next one.
C10_Witness ==
  /\ ev.op = "chatResponse"
  /\ chatIssued >= 1
  /\ chatReqs = {}
  /\ ~isLoading
  /\ ~sendDisabled

\* The step reads the body of a 2xx response that is the API's answer.
SuccessStep ==
  /\ ev'.res = "body-obj"
  /\ ev'.sid \in Ids
  /\ \/ ev'.op = "chatResponse"
     \/ ev'.op = "greetResponse" /\ \E r \in greetReqs \ greetReqs' : r.ok

\* C11: where localStorage.setItem throws, the step that handles a successful
\* /greet or /chat response still sets sessionId to the returned id and
\* appends the server's answer, not the fallback; the stored item stays as it
\* was. Where reading localStorage throws, init leaves sessionId null and an
\* accepted sendMessage issues its request with session_id null unless an id
\* is held in memory.
C11_StorageFailuresSwallowed ==
  /\ []((storageMode = "denied" /\ ev.op = "init") => sessionId = Null)
  /\ [][/\ (SuccessStep /\ storageMode # "ok") =>
             /\ sessionId' = ev'.sid
             /\ Last(messages') = Msg("assistant", <<ServerAnswer>>)
             /\ storage' = storage
        /\ (storageMode = "denied" /\ ev'.op = "sendMessage"
              /\ ~AllSpaces(input) /\ ~isLoading) =>
             /\ ev'.res = "accepted"
             /\ chatIssued' = chatIssued + 1
             /\ ev'.sid = IF sessionId \in Ids THEN sessionId ELSE Null]_vars

\* The quota is exceeded, and a /chat response's id was adopted all the same.
C11_Witness ==
  /\ storageMode = "nowrite"
  /\ ev = Event("chatResponse", "body-obj", "s2")
  /\ sessionId = "s2"
  /\ storage.id = "s1"
  /\ Last(messages) = Msg("assistant", <<ServerAnswer>>)

\* A line that the list pattern of line 80 matches: "- " and at least one
\* more character.
IsListLine(line) == StartsWith(line, <<"-", " ">>) /\ Len(line) > 2

\* The numbers of the list lines of a text, in order.
ListLines(text) ==
  LET ls == SplitLines(text)
  IN SelectSeq([i \in 1..Len(ls) |-> i], LAMBDA i : IsListLine(ls[i]))

\* The places of a tag in the HTML, in order.
Places(h, tag) == SelectSeq([i \in 1..Len(h) |-> i], LAMBDA i : h[i] = tag)

Count(h, tag, upto) == Cardinality({i \in 1..upto : h[i] = tag})

\* How many <ul> are open after the first i elements of the HTML.
UlDepth(h, i) == Count(h, UL_OPEN, i) - Count(h, UL_CLOSE, i)

\* The first place after i that holds neither a <br> nor a space, or 0.
RECURSIVE NextMeaningful(_, _)
NextMeaningful(h, i) ==
  IF i >= Len(h) THEN 0
  ELSE IF h[i + 1] \in {BR, Space} THEN NextMeaningful(h, i + 1)
  ELSE i + 1

\* C12: in the HTML that renderMarkdown returns, every <li> and </li> lies
\* inside an open <ul>, lists are not nested and every <ul> is closed; there
\* is one <li> for each list line of the text; the items of two list lines
\* that follow one another are in the same <ul>; and a <ul> is closed right
\* after an item, when what follows, breaks and spaces aside, is not another
\* list.
C12_ListItemsGrouped ==
  lastRender.called =>
    LET h == lastRender.html
        lls == ListLines(lastRender.text)
        opens == Places(h, LI_OPEN)
        closes == Places(h, LI_CLOSE)
    IN /\ \A i \in 1..Len(h) :
            /\ UlDepth(h, i) \in {0, 1}
            /\ h[i] \in {LI_OPEN, LI_CLOSE} => UlDepth(h, i) = 1
       /\ UlDepth(h, Len(h)) = 0
       /\ Len(opens) = Len(lls)
       /\ Len(closes) = Len(lls)
       /\ \A k \in 1..Len(lls) : opens[k] < closes[k]
       /\ \A k \in 1..(Len(lls) - 1) :
            /\ closes[k] < opens[k + 1]
            /\ lls[k + 1] = lls[k] + 1 =>
                 \A i \in closes[k]..opens[k + 1] : h[i] \notin {UL_OPEN, UL_CLOSE}
       /\ \A i \in 1..Len(h) :
            h[i] = UL_CLOSE =>
              /\ h[i - 1] = LI_CLOSE
              /\ NextMeaningful(h, i) # 0
              /\ h[NextMeaningful(h, i)] \notin {UL_OPEN, LI_OPEN}

\* "- a", newline, "- a" has been rendered as one list of two items.
C12_Witness ==
  /\ lastRender.called
  /\ lastRender.text = <<"-", " ", "a", NL, "-", " ", "a">>
  /\ lastRender.html = <<"<p>", UL_OPEN, LI_OPEN, "a", LI_CLOSE, LI_OPEN, "a", LI_CLOSE,
                         UL_CLOSE, "</p>">>

\* C13: the characters of the text bring no tag and no attribute into the
\* HTML that renderMarkdown returns: no < and no > of the text is left as it
\* was, and the value of an href, from the quote that opens it to the quote
\* that closes it, holds no quote of the text.
C13_OnlyWhitelistedHtml ==
  lastRender.called =>
    LET h == lastRender.html
    IN /\ \A i \in 1..Len(h) : h[i] \notin {"<", ">"}
       /\ \A i \in 1..Len(h) :
            h[i] = A_OPEN =>
              LET j == IndexOf(h, A_MID, i + 1)
              IN /\ j > i
                 /\ \A k \in (i + 1)..(j - 1) : h[k] # "\""

\* C14: the greeting and a message send do not exclude one another. A
\* sendMessage call is dropped only for an empty message or for isLoading,
\* so a submission made while the greeting is pending issues its /chat
\* request; the first opening of the panel issues the /greet request
\* whatever isLoading is; a step of one request leaves the other request as
\* it was; and while both are outstanding, a response to either can be
\* handled next.
C14_GreetAndChatIndependent ==
  /\ []((greetReqs # {} /\ chatReqs # {}) =>
          /\ ENABLED (GreetFetchSettles \/ GreetJsonSettles)
          /\ ENABLED (ChatFetchSettles \/ ChatJsonSettles))
  /\ [][/\ (ev'.op = "sendMessage" /\ ev'.res = "dropped") =>
             (AllSpaces(input) \/ isLoading)
        /\ (ev'.op = "sendMessage" /\ ~AllSpaces(input) /\ ~isLoading) =>
             /\ Cardinality(chatReqs') = Cardinality(chatReqs) + 1
             /\ UNCHANGED <<greetReqs, hasGreeted>>
        /\ (ev'.op = "togglePanel" /\ ~isOpen /\ ~hasGreeted) =>
             /\ Cardinality(greetReqs') = Cardinality(greetReqs) + 1
             /\ UNCHANGED <<chatReqs, isLoading, sendDisabled>>
        /\ ev'.op = "greetResponse" => UNCHANGED <<chatReqs, isLoading, sendDisabled>>
        /\ ev'.op = "chatResponse" => UNCHANGED <<greetReqs, hasGreeted>>]_vars

\* The greeting was requested, a message was sent while it was pending, and
\* the /chat response was handled first: its reply is rendered and the
\* greeting is still outstanding.
C14_Witness ==
  /\ greetReqs # {}
  /\ chatReqs = {}
  /\ chatIssued = 1
  /\ Len(messages) = 3
  /\ messages[1].role = "user"
  /\ messages[2] = TypingEl
  /\ messages[3] = Msg("assistant", <<ServerAnswer>>)

Shown(msgs) == SelectSeq(msgs, LAMBDA m : m.role # "typing")

\* The places of the user messages in a list, in order.
UserPlaces(msgs) == SelectSeq([i \in 1..Len(msgs) |-> i], LAMBDA i : msgs[i].role = "user")

AssistantsAfter(msgs, i) ==
  Cardinality({j \in (i + 1)..Len(msgs) : msgs[j].role = "assistant"})

ChatsCompleted == chatIssued - Cardinality(chatReqs)
GreetsCompleted == greetIssued - Cardinality(greetReqs)

\* C16: the step that accepts a submission appends the user's message, then
\* the typing indicator, and issues the /chat request with that message; the
\* step that completes a /chat request appends exactly one assistant
\* message, the reply or the fallback, at the end of the list, and no other
\* step of a /chat request appends any. So there is one user message per
\* request issued, one assistant message per completed /chat or /greet
\* request, and every user message whose request has completed has its
\* answer after it.
C16_UserThenOneAnswer ==
  /\ [](/\ CountRole(messages, "user") = chatIssued
        /\ CountRole(messages, "assistant") = ChatsCompleted + GreetsCompleted
        /\ \A k \in 1..ChatsCompleted :
             AssistantsAfter(messages, UserPlaces(messages)[k]) >= ChatsCompleted - k + 1)
  /\ [][/\ (ev'.op = "sendMessage" /\ ev'.res = "accepted") =>
             /\ messages' = messages \o <<Msg("user", Trim(input)), TypingEl>>
             /\ \E r \in chatReqs' \ chatReqs :
                  /\ r.message = Trim(input)
                  /\ r.n = chatIssued'
                  /\ chatReqs' = chatReqs \cup {r}
        /\ (ev'.op = "chatResponse" /\ chatReqs' # {}) =>
             /\ messages' = messages
             /\ Cardinality(chatReqs') = Cardinality(chatReqs)
        /\ (ev'.op = "chatResponse" /\ chatReqs' = {}) =>
             /\ chatReqs # {}
             /\ \E answer \in {<<ServerAnswer>>, <<CHAT_FALLBACK>>, <<>>} :
                  Shown(messages') = Append(Shown(messages), Msg("assistant", answer))
             /\ Last(messages').role = "assistant"
             /\ \E i \in 1..Len(messages) : messages[i].role = "user"]_vars

\* Two submissions have been answered, the first by the fallback and the
\* second by the reply: user, assistant, user, assistant.
C16_Witness ==
  /\ chatIssued = 2
  /\ chatReqs = {}
  /\ greetIssued = 0
  /\ Len(messages) = 4
  /\ messages[1].role = "user"
  /\ messages[2] = ChatFallbackMsg
  /\ messages[3].role = "user"
  /\ messages[4] = Msg("assistant", <<ServerAnswer>>)

\* The id sendMessage is to take: the one held in memory, else the one of a
\* readable stored payload that has not expired, else null.
ChosenId ==
  IF sessionId \in Ids THEN sessionId
  ELSE IF storageMode # "denied" /\ IsPayload(storage) /\ now - storage.ts < SESSION_TTL
       THEN storage.id
       ELSE Null

\* C17: the step that accepts a submission issues a /chat request whose
\* session_id is the id held in memory, else the persisted id that has not
\* expired, else null, and leaves that value in sessionId; no later step
\* changes the session_id of a request that is outstanding.
C17_RequestCarriesChosenId ==
  [][/\ (ev'.op = "sendMessage" /\ ev'.res = "accepted") =>
          /\ sessionId' = ChosenId
          /\ \E r \in chatReqs' \ chatReqs : r.session_id = ChosenId
     /\ ev'.op # "sendMessage" =>
          \A r \in chatReqs, r2 \in chatReqs' : r2.n = r.n => r2.session_id = r.session_id]_vars

IsPrefix(s, t) == Len(s) <= Len(t) /\ SubSeq(t, 1, Len(s)) = s

\* The step ends a /greet or /chat request.
CompletionStep ==
  /\ ev'.op \in {"greetResponse", "chatResponse"}
  /\ Cardinality(greetReqs') + Cardinality(chatReqs') <
       Cardinality(greetReqs) + Cardinality(chatReqs)

\* C18: the panel is closed after init, and isOpen changes in togglePanel
\* steps only, each of which flips it. A togglePanel step that closes the
\* panel changes nothing else: messages, sessionId, isLoading, hasGreeted,
\* the outstanding requests and the rest of the state stay as they were. A
\* request that completes while the panel is closed appends its assistant
\* message, and in every step the messages shown before are still there, in
\* their order, before any new one.
C18_ClosingOnlyHides ==
  /\ [](/\ isOpen \in BOOLEAN
        /\ ev.op = "init" => ~isOpen)
  /\ [][/\ ev'.op = "togglePanel" => isOpen' = ~isOpen
        /\ ev'.op # "togglePanel" => isOpen' = isOpen
        /\ (ev'.op = "togglePanel" /\ isOpen) =>
             UNCHANGED <<sessionId, isLoading, hasGreeted, sendDisabled, input, messages,
                         storage, storageMode, now, greetReqs, chatReqs, greetIssued,
                         chatIssued>>
        /\ (CompletionStep /\ ~isOpen) =>
             /\ Len(Shown(messages')) = Len(Shown(messages)) + 1
             /\ Last(messages').role = "assistant"
        /\ IsPrefix(Shown(messages), Shown(messages'))]_vars

\* The panel was opened and closed again, and the reply to a message arrived
\* while it was closed: the greeting, the user's message and the reply are
\* all in the list.
C18_Witness ==
  /\ ~isOpen
  /\ hasGreeted
  /\ ev = Event("chatResponse", "body-obj", "s1")
  /\ greetReqs = {}
  /\ chatReqs = {}
  /\ Len(messages) = 3
  /\ messages[1].role = "assistant"
  /\ messages[2].role = "user"
  /\ messages[3] = Msg("assistant", <<ServerAnswer>>)

=============================================================================
